---- MODULE Spec2Model ----
(***************************************************************************)
(* Model of the esa RAG pipeline: esa_connector.py (text normalisation,    *)
(* chunking, the on-disk cache, the paginated fetch and the index build)   *)
(* and the parts of main_fastapi.py that consume the (chunks, index) pair. *)
(*                                                                         *)
(* A text is a sequence of one-character strings.  The two cache artifacts *)
(* are modelled as files with an existence flag, a well-formedness flag    *)
(* (a truncated write leaves a file that cannot be parsed), a content and, *)
(* for the chunk-metadata file, a modification time.                       *)
(***************************************************************************)
EXTENDS Integers, Sequences, FiniteSets, TLC

VARIABLES
    now,            \* time.time(), in seconds
    ticks,          \* how often the clock has been advanced (bounds the model)
    cacheFile,      \* esa_data_cache.json
    indexFile,      \* esa_faiss_index.bin
    builds,         \* number of fetch_esa_documents calls started so far
    pc,             \* position of the running fetch_esa_documents call
    cacheValid,     \* what check_cache_validity() returned to this call
    all_documents,  \* fetch_esa_documents: accumulated (chunk, metadata) pairs
    page,           \* fetch_esa_documents: page counter
    posts,          \* posts of the listing response being processed
    postIdx,        \* position of the for loop in posts
    next_page,      \* next_page of the listing response being processed
    index,          \* the index built by this call (before it is saved/returned)
    requests,       \* requests.get calls issued by this call, in order
    encodeCalls,    \* embedding_model.encode calls issued by this call
    fetchEnd,       \* why the while loop of this call ended
    writes,         \* writes to the cache artifacts issued by this call
    error,          \* the exception that ended this call, if one did
    result,         \* what the call returned: path, documents_with_metadata, index
    splitText,      \* simple_text_splitter: argument text
    splitSize,      \* simple_text_splitter: argument chunk_size
    splitOut,       \* simple_text_splitter: returned list
    splitDone,      \* simple_text_splitter has been applied
    lastSave,       \* history: the completed save whose artifacts are on disk
    cleanIn,        \* clean_markdown: argument markdown_text
    cleanOut,       \* clean_markdown(cleanIn)
    cleanAgain,     \* clean_markdown(cleanOut)
    cleanDone,      \* clean_markdown has been applied
    extractIn,      \* answer extraction: generated_text
    extractOut,     \* answer extraction: answer
    extractDone,    \* the extraction has been applied
    question,       \* rag_ask / generate_answer: the question
    top_k,          \* retrieve: argument top_k
    relevant_docs,  \* what retrieve returned
    answer,         \* what generate_answer returned
    sources,        \* rag_ask: the source list of the response
    prompt,         \* the prompt handed to the generation model, if any
    generatorCalls, \* number of calls of the generation model by this request
    askStatus,      \* "none", "ok", or "error" when the request raised
    rpc,            \* concurrent builds: position of each process
    rvalid,         \* concurrent builds: what check_cache_validity() returned
    rdocs,          \* concurrent builds: all_documents of each process
    rindex,         \* concurrent builds: index of each process
    cacheWriter,    \* history: process whose json.dump wrote the JSON file last
    indexWriter     \* history: process whose write_index wrote the index last

buildVars == <<pc, cacheValid, all_documents, page, posts, postIdx, next_page,
               index, requests, encodeCalls, writes, error, fetchEnd, result,
               builds>>
fileVars == <<cacheFile, indexFile>>
clockVars == <<now, ticks>>
splitVars == <<splitText, splitSize, splitOut, splitDone>>
cleanVars == <<cleanIn, cleanOut, cleanAgain, cleanDone>>
extractVars == <<extractIn, extractOut, extractDone>>
askVars == <<question, top_k, relevant_docs, answer, sources, prompt,
             generatorCalls, askStatus>>
raceVars == <<rpc, rvalid, rdocs, rindex, cacheWriter, indexWriter>>
pureVars == <<splitVars, cleanVars, extractVars>>
\* what no step of fetch_esa_documents touches
outsideVars == <<pureVars, raceVars>>
vars == <<now, ticks, cacheFile, indexFile, builds, pc, cacheValid,
          all_documents, page, posts, postIdx, next_page, index, requests,
          encodeCalls, writes, error, fetchEnd, result, splitText, splitSize,
          splitOut, splitDone, lastSave, cleanIn, cleanOut, cleanAgain,
          cleanDone, extractIn, extractOut, extractDone, question, top_k,
          relevant_docs, answer, sources, prompt, generatorCalls, askStatus,
          rpc, rvalid, rdocs, rindex, cacheWriter, indexWriter>>

----------------------------------------------------------------------------
(* Bounds of the model *)

MaxTicks == 2
MaxBuilds == 3
MaxPages == 2
MaxPostsPerPage == 1
MaxTextLen == 4
MaxChunkSize == 4
MaxCleanLen == 3
MaxSegments == 4
MaxRetrieved == 3

----------------------------------------------------------------------------
(* Program constants *)

CACHE_EXPIRY_SECONDS == 86400
PER_PAGE == 100
DefaultChunkSize == 500
HTTP_OK == 200
DEFAULT_TOP_K == 2
ASK_TOP_K == 3

Min(a, b) == IF a < b THEN a ELSE b

\* Python's str.isspace / regex \s, restricted to the characters of the model
Whitespace == {" ", "\n", "\t"}

\* the character U+0060, which a string literal of this module cannot hold
Backtick == "backtick"

----------------------------------------------------------------------------
(* Python helpers *)

\* text[i:j] for 0 <= i, with Python's clamping of j to len(text)
Slice(text, i, j) == SubSeq(text, i + 1, Min(j, Len(text)))

\* list(range(0, stop, step)) for step > 0
RangeFromZero(stop, step) ==
    [k \in 1..((stop + step - 1) \div step) |-> (k - 1) * step]

\* "".join(parts)
RECURSIVE Concat(_)
Concat(parts) ==
    IF parts = <<>> THEN <<>> ELSE Head(parts) \o Concat(Tail(parts))

----------------------------------------------------------------------------
(* simple_text_splitter *)

simple_text_splitter_short(text, chunk_size) ==
    IF text # <<>>
    THEN LET starts == RangeFromZero(Len(text), chunk_size)
         IN  [k \in 1..Len(starts) |->
                 Slice(text, starts[k], starts[k] + chunk_size - 1)]
    ELSE <<>>

simple_text_splitter(text, chunk_size) ==
    IF text # <<>>
    THEN LET starts == RangeFromZero(Len(text), chunk_size)
         IN  [k \in 1..Len(starts) |->
                 Slice(text, starts[k], starts[k] + chunk_size)]
    ELSE <<>>

----------------------------------------------------------------------------
(* clean_markdown: the five re.sub passes and the final strip.  Each pass   *)
(* scans left to right: the leftmost position where the pattern matches is  *)
(* found, the text before it is kept, the match is replaced and the scan    *)
(* resumes after it.  Positions are 1-based; MatchX(text, p) is the length  *)
(* of the match of pattern X starting at p, or 0 when it does not match     *)
(* there.                                                                   *)

\* number of consecutive characters from position p on that are in set S
RECURSIVE RunLength(_, _, _)
RunLength(text, p, S) ==
    IF p <= Len(text) /\ text[p] \in S
    THEN 1 + RunLength(text, p + 1, S)
    ELSE 0

\* pattern 1: one to six "#" and then an optional whitespace character
MatchHeading(text, p) ==
    LET h == Min(6, RunLength(text, p, {"#"}))
    IN  IF h = 0 THEN 0
        ELSE IF p + h <= Len(text) /\ text[p + h] \in Whitespace
             THEN h + 1 ELSE h

\* pattern 2: "[", lazy any, "]", "(", lazy any, ")"; "any" excludes newline
MatchLink(text, p) ==
    IF ~(p <= Len(text) /\ text[p] = "[") THEN 0
    ELSE
      LET NoNewline(a, b) == \A q \in a..b : text[q] # "\n"
          Closers(j) == {k \in (j + 2)..Len(text) :
                           text[k] = ")" /\ NoNewline(j + 2, k - 1)}
          Mids == {j \in (p + 1)..(Len(text) - 1) :
                     /\ text[j] = "]"
                     /\ text[j + 1] = "("
                     /\ NoNewline(p + 1, j - 1)
                     /\ Closers(j) # {}}
      IN  IF Mids = {} THEN 0
          ELSE LET j == CHOOSE x \in Mids : \A y \in Mids : x <= y
                   k == CHOOSE x \in Closers(j) : \A y \in Closers(j) : x <= y
               IN  k - p + 1

\* pattern 3: a doubled or single star or underscore, a doubled tilde, a backtick
MatchEmphasis(text, p) ==
    IF p > Len(text) THEN 0
    ELSE LET two == p + 1 <= Len(text) /\ text[p + 1] = text[p]
         IN  IF text[p] \in {"*", "_"} THEN (IF two THEN 2 ELSE 1)
             ELSE IF text[p] = "~" THEN (IF two THEN 2 ELSE 0)
             ELSE IF text[p] = Backtick THEN 1
             ELSE 0

\* pattern 4 (MULTILINE): line start, whitespace run, one of - * +, whitespace
MatchListItem(text, p) ==
    IF ~(p <= Len(text) /\ (p = 1 \/ text[p - 1] = "\n")) THEN 0
    ELSE LET w == RunLength(text, p, Whitespace)
         IN  IF /\ p + w + 1 <= Len(text)
                /\ text[p + w] \in {"-", "*", "+"}
                /\ text[p + w + 1] \in Whitespace
             THEN w + 2 ELSE 0

\* pattern 5: two or more newlines
MatchBlankLines(text, p) ==
    LET n == RunLength(text, p, {"\n"})
    IN  IF n >= 2 THEN n ELSE 0

RECURSIVE SubHeading(_, _)
SubHeading(text, p) ==
    LET Starts == {q \in p..Len(text) : MatchHeading(text, q) > 0}
    IN  IF Starts = {} THEN SubSeq(text, p, Len(text))
        ELSE LET q == CHOOSE x \in Starts : \A y \in Starts : x <= y
             IN  SubSeq(text, p, q - 1) \o <<>>
                   \o SubHeading(text, q + MatchHeading(text, q))

RECURSIVE SubLink(_, _)
SubLink(text, p) ==
    LET Starts == {q \in p..Len(text) : MatchLink(text, q) > 0}
    IN  IF Starts = {} THEN SubSeq(text, p, Len(text))
        ELSE LET q == CHOOSE x \in Starts : \A y \in Starts : x <= y
             IN  SubSeq(text, p, q - 1) \o <<>>
                   \o SubLink(text, q + MatchLink(text, q))

RECURSIVE SubEmphasis(_, _)
SubEmphasis(text, p) ==
    LET Starts == {q \in p..Len(text) : MatchEmphasis(text, q) > 0}
    IN  IF Starts = {} THEN SubSeq(text, p, Len(text))
        ELSE LET q == CHOOSE x \in Starts : \A y \in Starts : x <= y
             IN  SubSeq(text, p, q - 1) \o <<>>
                   \o SubEmphasis(text, q + MatchEmphasis(text, q))

RECURSIVE SubListItem(_, _)
SubListItem(text, p) ==
    LET Starts == {q \in p..Len(text) : MatchListItem(text, q) > 0}
    IN  IF Starts = {} THEN SubSeq(text, p, Len(text))
        ELSE LET q == CHOOSE x \in Starts : \A y \in Starts : x <= y
             IN  SubSeq(text, p, q - 1) \o <<>>
                   \o SubListItem(text, q + MatchListItem(text, q))

RECURSIVE SubBlankLines(_, _)
SubBlankLines(text, p) ==
    LET Starts == {q \in p..Len(text) : MatchBlankLines(text, q) > 0}
    IN  IF Starts = {} THEN SubSeq(text, p, Len(text))
        ELSE LET q == CHOOSE x \in Starts : \A y \in Starts : x <= y
             IN  SubSeq(text, p, q - 1) \o <<"\n">>
                   \o SubBlankLines(text, q + MatchBlankLines(text, q))

\* str.strip()
Strip(text) ==
    LET Solid == {q \in 1..Len(text) : text[q] \notin Whitespace}
    IN  IF Solid = {} THEN <<>>
        ELSE LET lo == CHOOSE x \in Solid : \A y \in Solid : x <= y
                 hi == CHOOSE x \in Solid : \A y \in Solid : x >= y
             IN  SubSeq(text, lo, hi)

clean_markdown(markdown_text) ==
    LET t1 == SubHeading(markdown_text, 1)
        t2 == SubLink(t1, 1)
        t3 == SubEmphasis(t2, 1)
        t4 == SubListItem(t3, 1)
        t5 == SubBlankLines(t4, 1)
    IN  Strip(t5)

----------------------------------------------------------------------------
(* generate_answer: the extraction of the answer from the generated text   *)

\* the instruction end-marker "[/INST]"
INST_END == <<"[", "/", "I", "N", "S", "T", "]">>

\* the 0-based positions at which sub occurs in text
Occurrences(text, sub) ==
    {i \in 0..(Len(text) - Len(sub)) : Slice(text, i, i + Len(sub)) = sub}

\* str.find: the lowest position, or -1
find(text, sub) ==
    LET occ == Occurrences(text, sub)
    IN  IF occ = {} THEN -1 ELSE CHOOSE i \in occ : \A j \in occ : i <= j

\* str.rfind: the highest position, or -1
rfind(text, sub) ==
    LET occ == Occurrences(text, sub)
    IN  IF occ = {} THEN -1 ELSE CHOOSE i \in occ : \A j \in occ : i >= j

\* lines 130-138
ExtractAnswer(generated_text) ==
    LET answer_start == rfind(generated_text, INST_END)
    IN  IF answer_start # -1
        THEN Strip(Slice(generated_text, answer_start + Len(INST_END),
                         Len(generated_text)))
        ELSE generated_text

----------------------------------------------------------------------------
(* The remote document source (esa API).  Page p lists the posts numbered  *)
(* (p-1)*per_page + 1 ...; how many posts a page holds, whether it reports *)
(* a next page and whether a call fails are chosen by the environment.     *)

\* a nullable value is <<>> (None, JSON null) or <<v>>
None == <<>>

PostNumber(p, i) == (p - 1) * PER_PAGE + i

\* an item of the listing response
Post(n) ==
    [number |-> n, url |-> <<"posts", n>>, full_name |-> <<"name", n>>,
     category |-> IF n % 2 = 1 THEN <<"category">> ELSE None,
     tags |-> <<"tag">>]

\* body_md values of the detail endpoint
Bodies ==
    << <<"#", " ", "a">>,
       <<"-", " ", "b", "\n", "\n">>,
       <<"*", "*">> >>

BodyOf(n) == Bodies[((n - 1) % Len(Bodies)) + 1]

----------------------------------------------------------------------------
(* Embedding provider and vector index *)

Alphabet == <<" ", "\n", "\t", "#", "[", "]", "(", ")", "*", "_", "~", "-",
              "+", Backtick, "a", "b", "e", "s", "x">>

CharCode(c) == CHOOSE k \in 1..Len(Alphabet) : Alphabet[k] = c

\* embedding_model.encode of one text: a vector of fixed dimension
Embed(text) == <<Len(text), IF text = <<>> THEN 0 ELSE CharCode(text[1])>>

\* embedding_model.encode(texts)
encode(texts) == [k \in 1..Len(texts) |-> Embed(texts[k])]

\* faiss.IndexFlatL2(dimension)
IndexFlatL2(dimension) == [d |-> dimension, vectors |-> <<>>]

\* index.add(embeddings)
IndexAdd(idx, embeddings) == [idx EXCEPT !.vectors = @ \o embeddings]

\* index.ntotal
ntotal(idx) == Len(idx.vectors)

EmptyIndex == IndexFlatL2(0)

\* the sentinel returned when nothing was fetched
dummy_chunk == <<"e", "s", "a", "x", "x", "x", "x", "x", "x", "x", "x", "x",
                 "x", "x", "x", "x", "x">>
dummy_document == <<dummy_chunk, [source |-> <<"No Data">>]>>

----------------------------------------------------------------------------
(* Cache artifacts *)

NoCacheFile == [exists |-> FALSE, ok |-> FALSE, content |-> <<>>, mtime |-> 0]
NoIndexFile == [exists |-> FALSE, ok |-> FALSE, content |-> EmptyIndex]

check_cache_validity_inclusive ==
    IF ~cacheFile.exists \/ ~indexFile.exists THEN FALSE
    ELSE LET file_mtime == cacheFile.mtime
             time_since_last_update == now - file_mtime
         IN  time_since_last_update <= CACHE_EXPIRY_SECONDS

check_cache_validity ==
    IF ~cacheFile.exists \/ ~indexFile.exists THEN FALSE
    ELSE LET file_mtime == cacheFile.mtime
             time_since_last_update == now - file_mtime
         IN  time_since_last_update < CACHE_EXPIRY_SECONDS

\* save_to_cache: the list written by json.dump
CacheData(documents_with_metadata) ==
    [k \in 1..Len(documents_with_metadata) |->
        [chunk |-> documents_with_metadata[k][1],
         metadata |-> documents_with_metadata[k][2]]]

\* load_from_cache: the tuples rebuilt from the parsed list
DocumentsFromCache(data) ==
    [k \in 1..Len(data) |-> <<data[k].chunk, data[k].metadata>>]

----------------------------------------------------------------------------
(* State after construction: no cache artifact on disk, no build started.  *)

NoResult == [path |-> "none", documents |-> <<>>, index |-> EmptyIndex]

\* the artifacts on disk are not the outcome of one completed save_to_cache
NoSave == "none"

MainInit ==
    /\ now = 0
    /\ ticks = 0
    /\ cacheFile = NoCacheFile
    /\ indexFile = NoIndexFile
    /\ builds = 0
    /\ pc = "idle"
    /\ cacheValid = FALSE
    /\ all_documents = <<>>
    /\ page = 1
    /\ posts = <<>>
    /\ postIdx = 1
    /\ next_page = None
    /\ index = EmptyIndex
    /\ requests = <<>>
    /\ encodeCalls = 0
    /\ writes = 0
    /\ error = "none"
    /\ fetchEnd = "none"
    /\ result = NoResult
    /\ lastSave = NoSave

SplitIdle ==
    /\ splitText = <<>>
    /\ splitSize = 1
    /\ splitOut = <<>>
    /\ splitDone = FALSE

CleanIdle ==
    /\ cleanIn = <<>>
    /\ cleanOut = <<>>
    /\ cleanAgain = <<>>
    /\ cleanDone = FALSE

ExtractIdle ==
    /\ extractIn = <<>>
    /\ extractOut = <<>>
    /\ extractDone = FALSE

\* main_fastapi: no request has been handled
AskIdle ==
    /\ question = <<>>
    /\ top_k = 0
    /\ relevant_docs = <<>>
    /\ answer = <<>>
    /\ sources = <<>>
    /\ prompt = None
    /\ generatorCalls = 0
    /\ askStatus = "none"

\* a process starts: the module-level state of main_fastapi is created anew
AskReset ==
    /\ question' = <<>>
    /\ top_k' = 0
    /\ relevant_docs' = <<>>
    /\ answer' = <<>>
    /\ sources' = <<>>
    /\ prompt' = None
    /\ generatorCalls' = 0
    /\ askStatus' = "none"

Procs == {1, 2}

RaceIdle ==
    /\ rpc = [p \in Procs |-> "idle"]
    /\ rvalid = [p \in Procs |-> FALSE]
    /\ rdocs = [p \in Procs |-> <<>>]
    /\ rindex = [p \in Procs |-> EmptyIndex]
    /\ cacheWriter = 0
    /\ indexWriter = 0

Init ==
    MainInit /\ SplitIdle /\ CleanIdle /\ ExtractIdle /\ AskIdle /\ RaceIdle

----------------------------------------------------------------------------
(* The clock *)

TickSteps == {1, CACHE_EXPIRY_SECONDS - 1}

Tick ==
    /\ ticks < MaxTicks
    /\ \E d \in TickSteps : now' = now + d
    /\ ticks' = ticks + 1
    /\ UNCHANGED <<fileVars, buildVars, outsideVars, askVars, lastSave>>

----------------------------------------------------------------------------
(* fetch_esa_documents, one action per I/O step.                           *)
(* pc: idle -> load | list -> detail -> ... -> embed -> save_open ->       *)
(*     save_dump -> save_index -> save_index_write -> done;  raised when   *)
(*     an exception left the call.                                         *)

StartBuild_serves_stale ==
    /\ pc \in {"idle", "done", "raised"}
    /\ builds < MaxBuilds
    /\ builds' = builds + 1
    /\ cacheValid' = check_cache_validity
    /\ pc' = IF cacheFile.exists /\ indexFile.exists THEN "load" ELSE "list"
    /\ all_documents' = <<>>
    /\ page' = 1
    /\ posts' = <<>>
    /\ postIdx' = 1
    /\ next_page' = None
    /\ index' = EmptyIndex
    /\ requests' = <<>>
    /\ encodeCalls' = 0
    /\ writes' = 0
    /\ error' = "none"
    /\ fetchEnd' = "none"
    /\ result' = NoResult
    /\ AskReset
    /\ UNCHANGED <<fileVars, clockVars, outsideVars, lastSave>>

\* A process starts and calls fetch_esa_documents: the cache check.
StartBuild ==
    /\ pc \in {"idle", "done", "raised"}
    /\ builds < MaxBuilds
    /\ builds' = builds + 1
    /\ cacheValid' = check_cache_validity
    /\ pc' = IF check_cache_validity THEN "load" ELSE "list"
    /\ all_documents' = <<>>
    /\ page' = 1
    /\ posts' = <<>>
    /\ postIdx' = 1
    /\ next_page' = None
    /\ index' = EmptyIndex
    /\ requests' = <<>>
    /\ encodeCalls' = 0
    /\ writes' = 0
    /\ error' = "none"
    /\ fetchEnd' = "none"
    /\ result' = NoResult
    /\ AskReset
    /\ UNCHANGED <<fileVars, clockVars, outsideVars, lastSave>>

\* json.load and faiss.read_index both succeed
CacheLoads == cacheFile.exists /\ cacheFile.ok /\ indexFile.exists /\ indexFile.ok

LoadCache_propagates ==
    /\ pc = "load"
    /\ IF CacheLoads
       THEN /\ result' = [path |-> "cache",
                          documents |-> DocumentsFromCache(cacheFile.content),
                          index |-> indexFile.content]
            /\ pc' = "done"
            /\ error' = error
       ELSE /\ pc' = "raised"
            /\ error' = "load"
            /\ result' = result
    /\ UNCHANGED <<fileVars, clockVars, outsideVars, askVars, lastSave,
                   cacheValid, all_documents,
                   page, posts, postIdx, next_page, index, requests,
                   encodeCalls, writes, fetchEnd, builds>>

LoadCache_falls_through ==
    /\ pc = "load"
    /\ pc' = "list"
    /\ UNCHANGED <<fileVars, clockVars, outsideVars, askVars, lastSave,
                   cacheValid, all_documents,
                   page, posts, postIdx, next_page, index, requests,
                   encodeCalls, writes, error, fetchEnd, result, builds>>

\* try: return load_from_cache(...)  except Exception: (continue below)
LoadCache ==
    /\ pc = "load"
    /\ IF CacheLoads
       THEN /\ result' = [path |-> "cache",
                          documents |-> DocumentsFromCache(cacheFile.content),
                          index |-> indexFile.content]
            /\ pc' = "done"
       ELSE /\ pc' = "list"
            /\ result' = result
    /\ UNCHANGED <<fileVars, clockVars, outsideVars, askVars, lastSave,
                   cacheValid, all_documents,
                   page, posts, postIdx, next_page, index, requests,
                   encodeCalls, writes, error, fetchEnd, builds>>

\* entries of the request log
ListRequest(p, outcome, n, nx) ==
    [kind |-> "list", page |-> p, per_page |-> PER_PAGE, number |-> 0,
     outcome |-> outcome, count |-> n, has_next |-> nx]

DetailRequest(n, outcome) ==
    [kind |-> "detail", page |-> 0, per_page |-> 0, number |-> n,
     outcome |-> outcome, count |-> 0, has_next |-> FALSE]

\* status codes the listing endpoint answers with
StatusCodes == {HTTP_OK, 401}

\* the ways the while loop ends through an error (lines 134-136, 180-185)
ErrorEnds == {"list_status", "list_transport", "detail_http", "detail_transport"}

\* "break" out of the while loop, remembering why
BreakLoop_raises(why) ==
    /\ fetchEnd' = why
    /\ pc' = "raised"

BreakLoop(why) ==
    /\ fetchEnd' = why
    /\ pc' = "embed"

\* requests.get(list_url, ...) and the handling of its response
ListPage ==
    /\ pc = "list"
    /\ page <= MaxPages
    /\ \/ \* requests.get raises a RequestException
          /\ requests' = Append(requests, ListRequest(page, "transport", 0, FALSE))
          /\ BreakLoop("list_transport")
          /\ UNCHANGED <<posts, postIdx, next_page>>
       \/ \E status_code \in StatusCodes, n \in 0..MaxPostsPerPage, nx \in BOOLEAN :
          \* the remote source reports the end by page MaxPages
          /\ (page = MaxPages) => (n = 0 \/ ~nx)
          /\ (status_code # HTTP_OK) => (n = 0 /\ ~nx)
          /\ IF status_code # HTTP_OK
             THEN /\ requests' = Append(requests, ListRequest(page, "status", 0, FALSE))
                  /\ BreakLoop("list_status")
                  /\ UNCHANGED <<posts, postIdx, next_page>>
             ELSE /\ requests' = Append(requests, ListRequest(page, "ok", n, nx))
                  /\ IF n = 0
                     THEN /\ BreakLoop("empty_page")
                          /\ UNCHANGED <<posts, postIdx, next_page>>
                     ELSE /\ posts' = [i \in 1..n |-> Post(PostNumber(page, i))]
                          /\ postIdx' = 1
                          /\ next_page' = IF nx THEN <<page + 1>> ELSE None
                          /\ pc' = "detail"
                          /\ fetchEnd' = fetchEnd
    /\ UNCHANGED <<fileVars, clockVars, outsideVars, askVars, lastSave,
                   cacheValid, all_documents,
                   page, index, encodeCalls, writes, error, result, builds>>

\* clean_markdown tabulated over the bodies the remote source serves
CleanedBody == [body_md \in {Bodies[k] : k \in 1..Len(Bodies)} |->
                   clean_markdown(body_md)]

\* the (chunk, metadata) pairs one post contributes
PostDocuments(post, body_md) ==
    LET plain_text == CleanedBody[body_md]
        chunks == simple_text_splitter(plain_text, DefaultChunkSize)
        metadata == [source |-> post.url, title |-> post.full_name,
                     category |-> post.category, tags |-> post.tags]
    IN  [k \in 1..Len(chunks) |-> <<chunks[k], metadata>>]

\* end of one iteration of "for post in posts", and of the page after the last
EndOfPost_ignores_next_page ==
    IF postIdx < Len(posts)
    THEN /\ postIdx' = postIdx + 1
         /\ UNCHANGED <<page, pc, fetchEnd>>
    ELSE /\ page' = page + 1
         /\ postIdx' = postIdx
         /\ pc' = "list"
         /\ fetchEnd' = fetchEnd

EndOfPost ==
    IF postIdx < Len(posts)
    THEN /\ postIdx' = postIdx + 1
         /\ UNCHANGED <<page, pc, fetchEnd>>
    ELSE /\ page' = page + 1
         /\ postIdx' = postIdx
         /\ IF next_page = None
            THEN BreakLoop("no_next_page")
            ELSE pc' = "list" /\ fetchEnd' = fetchEnd

\* a failed detail request: raise_for_status or requests.get raises, and the
\* except clause of the while loop breaks
DetailError_skips_post(why) ==
    /\ EndOfPost
    /\ all_documents' = all_documents

DetailError(why) ==
    /\ BreakLoop(why)
    /\ UNCHANGED <<all_documents, page, postIdx>>

\* requests.get(detail_url, ...) for posts[postIdx] and the chunking of its body
DetailFetch ==
    /\ pc = "detail"
    /\ LET post == posts[postIdx]
       IN  \E outcome \in {"ok", "http_error", "transport"} :
             /\ requests' = Append(requests, DetailRequest(post.number, outcome))
             /\ IF outcome = "ok"
                THEN /\ all_documents' =
                          all_documents \o PostDocuments(post, BodyOf(post.number))
                     /\ EndOfPost
                ELSE DetailError(IF outcome = "transport"
                                 THEN "detail_transport" ELSE "detail_http")
    /\ UNCHANGED <<fileVars, clockVars, outsideVars, askVars, lastSave,
                   cacheValid, posts, next_page,
                   index, encodeCalls, writes, error, result, builds>>

\* lines 187-205: the sentinel when nothing was fetched, else the index
EmbedAndIndex_caches_sentinel ==
    /\ pc = "embed"
    /\ encodeCalls' = encodeCalls + 1
    /\ IF all_documents = <<>>
       THEN LET dummy_embedding == encode(<<dummy_chunk>>)
                dimension == Len(dummy_embedding[1])
            IN  /\ index' = IndexAdd(IndexFlatL2(dimension), dummy_embedding)
                /\ all_documents' = <<dummy_document>>
                /\ pc' = "save_open"
                /\ result' = result
       ELSE LET documents == [k \in 1..Len(all_documents) |-> all_documents[k][1]]
                doc_embeddings == encode(documents)
                dimension == Len(doc_embeddings[1])
            IN  /\ index' = IndexAdd(IndexFlatL2(dimension), doc_embeddings)
                /\ all_documents' = all_documents
                /\ pc' = "save_open"
                /\ result' = result
    /\ UNCHANGED <<fileVars, clockVars, outsideVars, askVars, lastSave,
                   cacheValid, page,
                   posts, postIdx, next_page, requests, writes, error, fetchEnd,
                   builds>>

EmbedAndIndex_drops_partial ==
    /\ pc = "embed"
    /\ encodeCalls' = encodeCalls + 1
    /\ IF all_documents = <<>> \/ fetchEnd \in ErrorEnds
       THEN LET dummy_embedding == encode(<<dummy_chunk>>)
                dimension == Len(dummy_embedding[1])
                dummy_index == IndexAdd(IndexFlatL2(dimension), dummy_embedding)
            IN  /\ result' = [path |-> "sentinel",
                              documents |-> <<dummy_document>>,
                              index |-> dummy_index]
                /\ pc' = "done"
                /\ index' = index
                /\ all_documents' = all_documents
       ELSE LET documents == [k \in 1..Len(all_documents) |-> all_documents[k][1]]
                doc_embeddings == encode(documents)
                dimension == Len(doc_embeddings[1])
            IN  /\ index' = IndexAdd(IndexFlatL2(dimension), doc_embeddings)
                /\ all_documents' = all_documents
                /\ pc' = "save_open"
                /\ result' = result
    /\ UNCHANGED <<fileVars, clockVars, outsideVars, askVars, lastSave,
                   cacheValid, page,
                   posts, postIdx, next_page, requests, writes, error, fetchEnd,
                   builds>>

EmbedAndIndex ==
    /\ pc = "embed"
    /\ encodeCalls' = encodeCalls + 1
    /\ IF all_documents = <<>>
       THEN LET dummy_embedding == encode(<<dummy_chunk>>)
                dimension == Len(dummy_embedding[1])
                dummy_index == IndexAdd(IndexFlatL2(dimension), dummy_embedding)
            IN  /\ result' = [path |-> "sentinel",
                              documents |-> <<dummy_document>>,
                              index |-> dummy_index]
                /\ pc' = "done"
                /\ index' = index
                /\ all_documents' = all_documents
       ELSE LET documents == [k \in 1..Len(all_documents) |-> all_documents[k][1]]
                doc_embeddings == encode(documents)
                dimension == Len(doc_embeddings[1])
            IN  /\ index' = IndexAdd(IndexFlatL2(dimension), doc_embeddings)
                /\ all_documents' = all_documents
                /\ pc' = "save_open"
                /\ result' = result
    /\ UNCHANGED <<fileVars, clockVars, outsideVars, askVars, lastSave,
                   cacheValid, page,
                   posts, postIdx, next_page, requests, writes, error, fetchEnd,
                   builds>>

----------------------------------------------------------------------------
(* save_to_cache: open(CACHE_FILE, "w") truncates the file, json.dump      *)
(* fills it, faiss.write_index opens and fills the index file.  Each step  *)
(* can fail (or the process can be stopped) before it takes effect.        *)

saveSteps == {"save_open", "save_dump", "save_index", "save_index_write"}

\* open(CACHE_FILE, "w")
SaveOpenCache ==
    /\ pc = "save_open"
    /\ cacheFile' = [exists |-> TRUE, ok |-> FALSE, content |-> <<>>, mtime |-> now]
    /\ writes' = writes + 1
    /\ pc' = "save_dump"
    /\ lastSave' = NoSave
    /\ UNCHANGED <<indexFile, clockVars, outsideVars, askVars,
                   cacheValid, all_documents,
                   page, posts, postIdx, next_page, index, requests,
                   encodeCalls, error, fetchEnd, result, builds>>

\* json.dump(cache_data, f, ...) and the close of the file
SaveDumpCache ==
    /\ pc = "save_dump"
    /\ cacheFile' = [exists |-> TRUE, ok |-> TRUE,
                     content |-> CacheData(all_documents), mtime |-> now]
    /\ writes' = writes + 1
    /\ pc' = "save_index"
    /\ UNCHANGED <<indexFile, clockVars, outsideVars, askVars, lastSave,
                   cacheValid, all_documents,
                   page, posts, postIdx, next_page, index, requests,
                   encodeCalls, error, fetchEnd, result, builds>>

\* faiss.write_index: the index file is opened for writing
SaveIndexOpen ==
    /\ pc = "save_index"
    /\ indexFile' = [exists |-> TRUE, ok |-> FALSE, content |-> EmptyIndex]
    /\ writes' = writes + 1
    /\ pc' = "save_index_write"
    /\ UNCHANGED <<cacheFile, clockVars, outsideVars, askVars, lastSave,
                   cacheValid, all_documents,
                   page, posts, postIdx, next_page, index, requests,
                   encodeCalls, error, fetchEnd, result, builds>>

\* faiss.write_index completes; fetch_esa_documents returns the fresh pair
SaveIndexWrite ==
    /\ pc = "save_index_write"
    /\ indexFile' = [exists |-> TRUE, ok |-> TRUE, content |-> index]
    /\ writes' = writes + 1
    /\ result' = [path |-> "fresh", documents |-> all_documents, index |-> index]
    /\ pc' = "done"
    /\ lastSave' = IF fetchEnd \in ErrorEnds THEN "partial" ELSE "complete"
    /\ UNCHANGED <<cacheFile, clockVars, outsideVars, askVars,
                   cacheValid, all_documents,
                   page, posts, postIdx, next_page, index, requests,
                   encodeCalls, error, fetchEnd, builds>>

\* a step of save_to_cache raises (or the process is stopped): the exception
\* leaves fetch_esa_documents, which has no handler around save_to_cache
SaveFail ==
    /\ pc \in saveSteps
    /\ pc' = "raised"
    /\ error' = "save"
    /\ UNCHANGED <<fileVars, clockVars, outsideVars, askVars, lastSave,
                   cacheValid, all_documents,
                   page, posts, postIdx, next_page, index, requests,
                   encodeCalls, writes, fetchEnd, result, builds>>

----------------------------------------------------------------------------
(* Specifications *)

BuildStep ==
    \/ LoadCache
    \/ ListPage
    \/ DetailFetch
    \/ EmbedAndIndex
    \/ SaveOpenCache
    \/ SaveDumpCache
    \/ SaveIndexOpen
    \/ SaveIndexWrite

Next ==
    \/ Tick
    \/ StartBuild
    \/ BuildStep
    \/ SaveFail

Spec == Init /\ [][Next]_vars

\* a running call keeps executing: its steps are not postponed forever
FairSpec == Spec /\ WF_vars(BuildStep)

----------------------------------------------------------------------------
(* simple_text_splitter on its own: the arguments are drawn from bounded   *)
(* sets and the function is applied once.                                   *)

SplitAlphabet == {"a", "b"}
SplitTexts == UNION {[1..n -> SplitAlphabet] : n \in 0..MaxTextLen}

SplitInit ==
    /\ MainInit /\ CleanIdle /\ ExtractIdle /\ AskIdle /\ RaceIdle
    /\ splitText \in SplitTexts
    /\ splitSize \in 1..MaxChunkSize
    /\ splitOut = <<>>
    /\ splitDone = FALSE

Split ==
    /\ ~splitDone
    /\ splitOut' = simple_text_splitter(splitText, splitSize)
    /\ splitDone' = TRUE
    /\ UNCHANGED <<splitText, splitSize, fileVars, clockVars, buildVars,
                   cleanVars, extractVars, raceVars, askVars, lastSave>>

SplitNext == Split

SplitSpec == SplitInit /\ [][SplitNext]_vars

----------------------------------------------------------------------------
(* main_fastapi.generate_answer.  The literal parts of the prompt that are *)
(* Japanese sentences are single tokens; the markers and the line breaks   *)
(* are spelled out, since the extraction searches the generated text for   *)
(* the end-marker.                                                         *)

\* the answer returned when nothing relevant was retrieved (line 99)
NO_INFO_ANSWER == <<"no relevant information found">>

\* the separator of the context block (line 101)
CONTEXT_SEPARATOR == <<"\n", "-", "-", "-", "\n">>

\* separator.join(texts)
RECURSIVE Join(_, _)
Join(texts, separator) ==
    IF texts = <<>> THEN <<>>
    ELSE IF Len(texts) = 1 THEN texts[1]
    ELSE texts[1] \o separator \o Join(Tail(texts), separator)

\* the three literal parts of the f-string of lines 104-113
PROMPT_HEAD ==
    <<"\n", "[", "I", "N", "S", "T", "]", "\n", "instruction", "\n",
      "reference:", "\n">>
PROMPT_MID == <<"\n", "\n", "question:", " ">>
PROMPT_TAIL == <<"\n">> \o INST_END \o <<"\n", "\n", "answer:">>

PromptOf(contexts, q) ==
    PROMPT_HEAD \o contexts \o PROMPT_MID \o q \o PROMPT_TAIL

\* what the generation model appends to the prompt
Continuations ==
    { <<>>,
      <<" ", "a", "\n">>,
      <<"b">> \o INST_END \o <<" ", "a">> }

\* response[0]["generated_text"]: the continuation, after the prompt when
\* the pipeline returns the full text
GeneratedTexts(p) ==
    {head \o c : head \in {p, <<>>}, c \in Continuations}

generate_answer_any_sentinel(q, docs) ==
    IF \E k \in 1..Len(docs) : docs[k].context = dummy_chunk
    THEN /\ answer' = NO_INFO_ANSWER
         /\ prompt' = None
         /\ generatorCalls' = 0
    ELSE LET contexts == Join([k \in 1..Len(docs) |-> docs[k].context],
                              CONTEXT_SEPARATOR)
             p == PromptOf(contexts, q)
         IN  /\ prompt' = <<p>>
             /\ generatorCalls' = 1
             /\ \E generated_text \in GeneratedTexts(p) :
                   answer' = ExtractAnswer(generated_text)

\* generate_answer(question, relevant_docs), called once per request
generate_answer(q, docs) ==
    IF docs = <<>> \/ docs[1].context = dummy_chunk
    THEN /\ answer' = NO_INFO_ANSWER
         /\ prompt' = None
         /\ generatorCalls' = 0
    ELSE LET contexts == Join([k \in 1..Len(docs) |-> docs[k].context],
                              CONTEXT_SEPARATOR)
             p == PromptOf(contexts, q)
         IN  /\ prompt' = <<p>>
             /\ generatorCalls' = 1
             /\ \E generated_text \in GeneratedTexts(p) :
                   answer' = ExtractAnswer(generated_text)

\* generate_answer on its own: the question and the retrieved list are
\* drawn from bounded sets and the function is applied once.
Questions == {<<"a">>, <<"b">>}

RetrievedContexts == {<<"a">>, <<"b">>, dummy_chunk}

\* an entry of the list retrieve returns, at rank k
RetrievalResult(c, k) ==
    [context |-> c, source |-> <<"posts", c>>, distance |-> k - 1]

RetrievedLists ==
    UNION {{[k \in 1..n |-> RetrievalResult(f[k], k)] :
               f \in [1..n -> RetrievedContexts]} : n \in 0..MaxRetrieved}

AnswerInit ==
    /\ MainInit /\ SplitIdle /\ CleanIdle /\ ExtractIdle /\ RaceIdle
    /\ question \in Questions
    /\ relevant_docs \in RetrievedLists
    /\ top_k = 0
    /\ answer = <<>>
    /\ sources = <<>>
    /\ prompt = None
    /\ generatorCalls = 0
    /\ askStatus = "none"

GenerateAnswer ==
    /\ askStatus = "none"
    /\ generate_answer(question, relevant_docs)
    /\ askStatus' = "ok"
    /\ UNCHANGED <<question, top_k, relevant_docs, sources, fileVars,
                   clockVars, buildVars, pureVars, raceVars, lastSave>>

AnswerNext == GenerateAnswer

AnswerSpec == AnswerInit /\ [][AnswerNext]_vars

----------------------------------------------------------------------------
(* main_fastapi: the module-level pair, retrieve and the /rag/ask handler. *)
(* Requests are served by a process whose call of fetch_esa_documents has  *)
(* returned (line 44); a process whose build raised serves none.           *)

\* lines 44-47
documents == [k \in 1..Len(result.documents) |-> result.documents[k][1]]
metadatas == [k \in 1..Len(result.documents) |-> result.documents[k][2]]

\* squared Euclidean distance, the metric of IndexFlatL2
RECURSIVE SquaredL2(_, _)
SquaredL2(u, v) ==
    IF u = <<>> THEN 0
    ELSE (u[1] - v[1]) * (u[1] - v[1]) + SquaredL2(Tail(u), Tail(v))

\* index.search(xq, k) for one query vector: the rows distances[0] and
\* indices[0] as a sequence of k entries.  The labels are 0-based, nearest
\* first; the order among equal distances is the library's choice; when the
\* index holds fewer than k vectors the remaining entries carry the label
\* -1 (their distance is not read by the caller).
search(idx, xq, k) ==
    LET n == ntotal(idx)
        m == Min(k, n)
        D(l) == SquaredL2(idx.vectors[l + 1], xq)
        Nearest ==
            {r \in [1..m -> 0..(n - 1)] :
                /\ \A i, j \in 1..m : (i < j) =>
                       (r[i] # r[j] /\ D(r[i]) <= D(r[j]))
                /\ \A l \in 0..(n - 1) :
                       (\A i \in 1..m : r[i] # l) => (D(l) >= D(r[m]))}
    IN  {[i \in 1..k |->
            IF i <= m THEN [label |-> r[i], distance |-> <<D(r[i])>>]
            ELSE [label |-> -1, distance |-> None]] : r \in Nearest}

\* the body of the for loop of retrieve applied to the rows of one search:
\* documents[i] raises IndexError when i is not a position of documents
RetrieveRaises(found) ==
    \E idx \in 1..Len(found) : found[idx].label >= Len(documents)

Kept(found) == SelectSeq(found, LAMBDA e : e.label >= 0)

RetrieveResults(found) ==
    [idx \in 1..Len(Kept(found)) |->
        [context |-> documents[Kept(found)[idx].label + 1],
         source |-> metadatas[Kept(found)[idx].label + 1].source,
         distance |-> Kept(found)[idx].distance[1]]]

\* the request left the handler with an exception
AskRaised ==
    /\ askStatus' = "error"
    /\ relevant_docs' = <<>>
    /\ answer' = <<>>
    /\ sources' = <<>>
    /\ prompt' = None
    /\ generatorCalls' = 0

\* retrieve(query) called on its own, with the default top_k
Retrieve ==
    /\ pc = "done"
    /\ \E query \in Questions, k \in {DEFAULT_TOP_K} :
          /\ question' = query
          /\ top_k' = k
          /\ \E found \in search(result.index, encode(<<query>>)[1], k) :
                IF RetrieveRaises(found)
                THEN AskRaised
                ELSE /\ relevant_docs' = RetrieveResults(found)
                     /\ askStatus' = "retrieved"
                     /\ answer' = <<>>
                     /\ sources' = <<>>
                     /\ prompt' = None
                     /\ generatorCalls' = 0
    /\ UNCHANGED <<fileVars, clockVars, buildVars, pureVars, raceVars, lastSave>>

\* lines 164-168
SourcesOf_keeps_sentinel(docs) ==
    [k \in 1..Len(docs) |-> [text |-> docs[k].context, source |-> docs[k].source]]

SourcesOf(docs) ==
    LET shown == SelectSeq(docs, LAMBDA doc : doc.context # dummy_chunk)
    IN  [k \in 1..Len(shown) |->
            [text |-> shown[k].context, source |-> shown[k].source]]

\* POST /rag/ask: retrieve with top_k = 3, generate_answer, the source
\* list, the interaction log (an external collaborator), the response; an
\* exception anywhere becomes the HTTP 500 response
rag_ask ==
    /\ pc = "done"
    /\ \E q \in Questions :
          /\ question' = q
          /\ top_k' = ASK_TOP_K
          /\ \E found \in search(result.index, encode(<<q>>)[1], ASK_TOP_K) :
                IF RetrieveRaises(found)
                THEN AskRaised
                ELSE /\ relevant_docs' = RetrieveResults(found)
                     /\ generate_answer(q, RetrieveResults(found))
                     /\ sources' = SourcesOf(RetrieveResults(found))
                     /\ askStatus' = "ok"
    /\ UNCHANGED <<fileVars, clockVars, buildVars, pureVars, raceVars, lastSave>>

AskNext ==
    \/ Tick
    \/ StartBuild
    \/ BuildStep
    \/ SaveFail
    \/ Retrieve
    \/ rag_ask

AskSpec == Init /\ [][AskNext]_vars

----------------------------------------------------------------------------
(* clean_markdown on its own: the argument is drawn from a bounded set of   *)
(* texts and the function is applied to it and then to its own result.      *)

CleanAlphabet == {"#", "[", "]", "(", ")", "*", "~", "-", " ", "\n", "a"}

\* all short texts, and two longer ones: a nested list bullet and a link
\* whose halves an emphasis mark separates
CleanTexts ==
    UNION {[1..n -> CleanAlphabet] : n \in 0..MaxCleanLen}
      \cup { <<"-", " ", "-", " ", "a">>,
             <<"[", "a", "]", "*", "(", "a", ")">> }

CleanInit ==
    /\ MainInit /\ SplitIdle /\ ExtractIdle /\ AskIdle /\ RaceIdle
    /\ cleanIn \in CleanTexts
    /\ cleanOut = <<>>
    /\ cleanAgain = <<>>
    /\ cleanDone = FALSE

Clean ==
    /\ ~cleanDone
    /\ cleanOut' = clean_markdown(cleanIn)
    /\ cleanAgain' = clean_markdown(clean_markdown(cleanIn))
    /\ cleanDone' = TRUE
    /\ UNCHANGED <<cleanIn, fileVars, clockVars, buildVars, splitVars,
                   extractVars, raceVars, askVars, lastSave>>

CleanNext == Clean

CleanSpec == CleanInit /\ [][CleanNext]_vars

----------------------------------------------------------------------------
(* The answer extraction on its own: the generated text is drawn from the  *)
(* concatenations of a few segments, among them the marker and its parts.  *)

ExtractSegments ==
    { INST_END, <<"[", "/", "I", "N", "S", "T">>, <<"]">>, <<" ">>, <<"a">> }

RECURSIVE SegmentTexts(_)
SegmentTexts(n) ==
    IF n = 0 THEN {<<>>}
    ELSE LET shorter == SegmentTexts(n - 1)
         IN  shorter \cup {t \o g : t \in shorter, g \in ExtractSegments}

ExtractInit ==
    /\ MainInit /\ SplitIdle /\ CleanIdle /\ AskIdle /\ RaceIdle
    /\ extractIn \in SegmentTexts(MaxSegments)
    /\ extractOut = <<>>
    /\ extractDone = FALSE

Extract ==
    /\ ~extractDone
    /\ extractOut' = ExtractAnswer(extractIn)
    /\ extractDone' = TRUE
    /\ UNCHANGED <<extractIn, fileVars, clockVars, buildVars, splitVars,
                   cleanVars, raceVars, askVars, lastSave>>

ExtractNext == Extract

ExtractSpec == ExtractInit /\ [][ExtractNext]_vars

----------------------------------------------------------------------------
(* Two processes run fetch_esa_documents at the same time on the same two  *)
(* artifacts.  Each process has its own position, its own all_documents    *)
(* and its own index; the fetch loop and the embedding of a process, which *)
(* touch nothing shared, are one step.  Nothing in the code coordinates    *)
(* the processes: there is no lock and no temporary file.                  *)

\* what a fetch can accumulate: the remote corpus may change between the
\* fetches of the two processes, or an error may end one of them early
RaceCorpora ==
    { <<>>,
      PostDocuments(Post(1), BodyOf(1)),
      PostDocuments(Post(1), BodyOf(1))
        \o PostDocuments(Post(PER_PAGE + 1), BodyOf(PER_PAGE + 1)) }

\* lines 200-205
BuildIndex(docs) ==
    LET doc_embeddings == encode([k \in 1..Len(docs) |-> docs[k][1]])
    IN  IndexAdd(IndexFlatL2(Len(doc_embeddings[1])), doc_embeddings)

\* lines 115-124: the cache check of process p
RaceStart(p) ==
    /\ rpc[p] = "idle"
    /\ rvalid' = [rvalid EXCEPT ![p] = check_cache_validity]
    /\ rpc' = [rpc EXCEPT ![p] = IF check_cache_validity THEN "load" ELSE "fetch"]
    /\ UNCHANGED <<rdocs, rindex, cacheWriter, indexWriter, fileVars,
                   clockVars, buildVars, pureVars, askVars, lastSave>>

\* lines 117-122: load_from_cache, and the fall-through when it fails
RaceLoad(p) ==
    /\ rpc[p] = "load"
    /\ IF CacheLoads
       THEN /\ rdocs' = [rdocs EXCEPT ![p] = DocumentsFromCache(cacheFile.content)]
            /\ rindex' = [rindex EXCEPT ![p] = indexFile.content]
            /\ rpc' = [rpc EXCEPT ![p] = "returned_cache"]
       ELSE /\ rpc' = [rpc EXCEPT ![p] = "fetch"]
            /\ UNCHANGED <<rdocs, rindex>>
    /\ UNCHANGED <<rvalid, cacheWriter, indexWriter, fileVars, clockVars, buildVars,
                   pureVars, askVars, lastSave>>

\* lines 125-205: the fetch loop and the embedding, or the sentinel
RaceFetch(p) ==
    /\ rpc[p] = "fetch"
    /\ \E corpus \in RaceCorpora :
          IF corpus = <<>>
          THEN /\ rdocs' = [rdocs EXCEPT ![p] = <<dummy_document>>]
               /\ rindex' = [rindex EXCEPT ![p] = BuildIndex(<<dummy_document>>)]
               /\ rpc' = [rpc EXCEPT ![p] = "returned_sentinel"]
          ELSE /\ rdocs' = [rdocs EXCEPT ![p] = corpus]
               /\ rindex' = [rindex EXCEPT ![p] = BuildIndex(corpus)]
               /\ rpc' = [rpc EXCEPT ![p] = "save_open"]
    /\ UNCHANGED <<rvalid, cacheWriter, indexWriter, fileVars, clockVars, buildVars,
                   pureVars, askVars, lastSave>>

RaceSaveOpenCache_locked(p) ==
    /\ rpc[p] = "save_open"
    /\ \A q \in Procs \ {p} : rpc[q] \notin saveSteps \ {"save_open"}
    /\ cacheFile' = [exists |-> TRUE, ok |-> FALSE, content |-> <<>>, mtime |-> now]
    /\ rpc' = [rpc EXCEPT ![p] = "save_dump"]
    /\ UNCHANGED <<rvalid, rdocs, rindex, cacheWriter, indexWriter, indexFile,
                   clockVars, buildVars, pureVars, askVars, lastSave>>

\* save_to_cache of process p: open(CACHE_FILE, "w")
RaceSaveOpenCache(p) ==
    /\ rpc[p] = "save_open"
    /\ cacheFile' = [exists |-> TRUE, ok |-> FALSE, content |-> <<>>, mtime |-> now]
    /\ rpc' = [rpc EXCEPT ![p] = "save_dump"]
    /\ UNCHANGED <<rvalid, rdocs, rindex, cacheWriter, indexWriter, indexFile,
                   clockVars, buildVars, pureVars, askVars, lastSave>>

\* json.dump of process p and the close of the file
RaceSaveDumpCache(p) ==
    /\ rpc[p] = "save_dump"
    /\ cacheFile' = [exists |-> TRUE, ok |-> TRUE,
                     content |-> CacheData(rdocs[p]), mtime |-> now]
    /\ cacheWriter' = p
    /\ rpc' = [rpc EXCEPT ![p] = "save_index"]
    /\ UNCHANGED <<rvalid, rdocs, rindex, indexWriter, indexFile, clockVars,
                   buildVars, pureVars, askVars, lastSave>>

\* faiss.write_index of process p: the index file is opened for writing
RaceSaveIndexOpen(p) ==
    /\ rpc[p] = "save_index"
    /\ indexFile' = [exists |-> TRUE, ok |-> FALSE, content |-> EmptyIndex]
    /\ rpc' = [rpc EXCEPT ![p] = "save_index_write"]
    /\ UNCHANGED <<rvalid, rdocs, rindex, cacheWriter, indexWriter, cacheFile,
                   clockVars, buildVars, pureVars, askVars, lastSave>>

\* faiss.write_index of process p completes; p returns its fresh pair
RaceSaveIndexWrite(p) ==
    /\ rpc[p] = "save_index_write"
    /\ indexFile' = [exists |-> TRUE, ok |-> TRUE, content |-> rindex[p]]
    /\ indexWriter' = p
    /\ rpc' = [rpc EXCEPT ![p] = "returned_fresh"]
    /\ UNCHANGED <<rvalid, rdocs, rindex, cacheWriter, cacheFile, clockVars,
                   buildVars, pureVars, askVars, lastSave>>

RaceSaveStep(p) ==
    \/ RaceSaveOpenCache(p)
    \/ RaceSaveDumpCache(p)
    \/ RaceSaveIndexOpen(p)
    \/ RaceSaveIndexWrite(p)

RaceNext ==
    \E p \in Procs :
        \/ RaceStart(p)
        \/ RaceLoad(p)
        \/ RaceFetch(p)
        \/ RaceSaveStep(p)

RaceSpec == Init /\ [][RaceNext]_vars

----------------------------------------------------------------------------
(* Claims *)

\* age of the chunk-metadata file
CacheAge == now - cacheFile.mtime

\* C1: check_cache_validity() is true exactly when both artifacts exist and
\* the chunk-metadata file is younger than 24 hours, in every reachable
\* state: a completed save that is still within the window is valid, an
\* expired cache is invalid, a cache missing an artifact is invalid, and
\* what a call observed agrees with this (a call that saw the cache valid
\* has both artifacts; one that saw it invalid still sees it invalid until
\* it writes).
C1_ValidIffBothExistAndFresh ==
    /\ check_cache_validity <=>
          (cacheFile.exists /\ indexFile.exists /\ CacheAge < CACHE_EXPIRY_SECONDS)
    /\ (pc = "done" /\ result.path = "fresh" /\ CacheAge < CACHE_EXPIRY_SECONDS)
          => check_cache_validity
    /\ (cacheFile.exists /\ indexFile.exists /\ CacheAge >= CACHE_EXPIRY_SECONDS)
          => ~check_cache_validity
    /\ (~cacheFile.exists \/ ~indexFile.exists) => ~check_cache_validity
    /\ (builds > 0 /\ cacheValid) => (cacheFile.exists /\ indexFile.exists)
    /\ (builds > 0 /\ ~cacheValid /\ writes = 0) => ~check_cache_validity

\* both artifacts on disk, the chunk-metadata file exactly 24 hours old
C1_Witness_ExpiredAtBoundary ==
    /\ cacheFile.exists /\ indexFile.exists
    /\ CacheAge = CACHE_EXPIRY_SECONDS
    /\ ~check_cache_validity

\* a failed or interrupted save_to_cache that had started to write
SaveInterrupted == pc = "raised" /\ error = "save" /\ writes >= 1

\* C2: after save_to_cache failed or was interrupted between starting to
\* write the chunk-metadata file and finishing the index file,
\* check_cache_validity() does not report the cache valid.
C2_InterruptedSaveNotValid ==
    SaveInterrupted => ~check_cache_validity

\* the pair is positionally aligned: as many vectors as chunks, vector i the
\* embedding of chunk i
Aligned(documents_with_metadata, idx) ==
    /\ ntotal(idx) = Len(documents_with_metadata)
    /\ \A i \in 1..Len(documents_with_metadata) :
          idx.vectors[i] = Embed(documents_with_metadata[i][1])

\* C3: every pair fetch_esa_documents returns, through any path and after
\* any earlier builds and saves, is positionally aligned.
C3_ReturnedPairAligned ==
    pc = "done" => Aligned(result.documents, result.index)

\* C4: when the cache was reported valid but load_from_cache fails (the
\* chunk-metadata file cannot be parsed or the index file cannot be read),
\* the call does not raise: it goes on to the remote fetch from page 1 with
\* nothing accumulated.
C4_LoadFailureIsCacheMiss ==
    [][(pc = "load" /\ ~CacheLoads /\ pc' # pc) =>
          /\ pc' = "list"
          /\ error' = "none"
          /\ page' = 1
          /\ all_documents' = <<>>
          /\ requests' = <<>>
          /\ result' = NoResult]_vars

\* the cache was reported valid, its chunk-metadata file could not be parsed
\* and the call is about to request the first listing page
C4_Witness_FellThroughToFetch ==
    /\ pc = "list"
    /\ cacheValid
    /\ cacheFile.exists /\ ~cacheFile.ok
    /\ requests = <<>>

\* C5: a call that found the cache valid and loadable returns the loaded
\* pair and nothing else happens in it: no request, no encode call, no
\* write to either artifact; and such a call never reaches the fetch.
C5_CacheHitDoesNoWork ==
    /\ (pc = "done" /\ result.path = "cache") =>
          /\ requests = <<>>
          /\ encodeCalls = 0
          /\ writes = 0
          /\ result.documents = DocumentsFromCache(cacheFile.content)
          /\ result.index = indexFile.content
    /\ (cacheValid /\ CacheLoads /\ writes = 0 /\ pc \notin {"idle", "load"}) =>
          (pc = "done" /\ result.path = "cache")

\* a call returned a non-empty pair from the cache
C5_Witness_CacheHit ==
    /\ pc = "done"
    /\ result.path = "cache"
    /\ Len(result.documents) >= 1

\* the sentinel as save_to_cache would write it
dummy_item == [chunk |-> dummy_document[1], metadata |-> dummy_document[2]]

\* C6: a fetch that accumulated nothing returns exactly the sentinel chunk
\* and a one-vector index and writes neither artifact; the sentinel path is
\* taken only then; no snapshot on disk holds the sentinel or an empty list.
C6_SentinelNeverCached ==
    /\ (pc = "done" /\ result.path # "cache" /\ all_documents = <<>>) =>
          /\ result.path = "sentinel"
          /\ result.documents = <<dummy_document>>
          /\ ntotal(result.index) = 1
          /\ encodeCalls = 1
          /\ writes = 0
    /\ (result.path = "sentinel") => (all_documents = <<>>)
    /\ (pc \in saveSteps) => (all_documents # <<>>)
    /\ (cacheFile.exists /\ cacheFile.ok) =>
          /\ cacheFile.content # <<>>
          /\ \A k \in 1..Len(cacheFile.content) : cacheFile.content[k] # dummy_item

\* the sentinel was returned while an earlier snapshot is on disk
C6_Witness_SentinelBesideSnapshot ==
    /\ pc = "done"
    /\ result.path = "sentinel"
    /\ cacheFile.exists /\ cacheFile.ok
    /\ indexFile.exists /\ indexFile.ok

\* the (chunk, metadata) pairs of the detail requests of a log that succeeded
RECURSIVE DocumentsOfLog(_)
DocumentsOfLog(log) ==
    IF log = <<>> THEN <<>>
    ELSE LET r == Head(log)
         IN  (IF r.kind = "detail" /\ r.outcome = "ok"
              THEN PostDocuments(Post(r.number), BodyOf(r.number))
              ELSE <<>>) \o DocumentsOfLog(Tail(log))

\* positions of the log holding a failed detail request
FailedDetails ==
    {i \in 1..Len(requests) :
        requests[i].kind = "detail" /\ requests[i].outcome # "ok"}

\* what a call whose fetch loop has ended goes on to do with all_documents
LoopEndedNormally ==
    /\ pc \in {"embed", "done", "raised"} \cup saveSteps
    /\ (pc = "raised") => (error = "save")
    /\ (pc = "done") =>
          IF all_documents = <<>>
          THEN result.path = "sentinel"
          ELSE /\ result.path = "fresh"
               /\ result.documents = all_documents
               /\ cacheFile.ok /\ cacheFile.content = CacheData(all_documents)

\* C7 as stated: after a detail request failed, no batch that keeps the
\* chunks of other documents is embedded, persisted or returned.
C7_DetailErrorFailsWholeBatch ==
    (FailedDetails # {}) =>
        /\ pc \notin saveSteps
        /\ ~(pc = "done" /\ result.path = "fresh")

\* C7 amended: a failed detail request is the last request of the call (no
\* later document or page is fetched); the chunks of the documents fetched
\* before it are kept in order, the failed document contributes none; the
\* call does not raise because of it, and what was kept is embedded,
\* persisted and returned (the sentinel if nothing was kept).
C7_DetailErrorEndsFetchKeepingEarlier ==
    (FailedDetails # {}) =>
        /\ FailedDetails = {Len(requests)}
        /\ fetchEnd \in {"detail_http", "detail_transport"}
        /\ all_documents = DocumentsOfLog(requests)
        /\ LoopEndedNormally

\* a detail request failed after another document had been fetched, and the
\* call returned and cached the chunks of that other document
C7_Witness_PartialBatchCached ==
    /\ FailedDetails # {}
    /\ pc = "done"
    /\ result.path = "fresh"
    /\ cacheFile.content = CacheData(result.documents)

\* positions of the log holding a listing request answered with a
\* non-success status, or any request that failed in transport
FailedTransfers ==
    {i \in 1..Len(requests) :
        \/ requests[i].kind = "list" /\ requests[i].outcome = "status"
        \/ requests[i].outcome = "transport"}

\* C8: a non-success listing response or a transport error on any call is
\* the last request of the call; the chunks accumulated before it are kept
\* in order; the call does not raise because of it and returns them (the
\* sentinel if there are none).
C8_FetchErrorAbortsPagination ==
    (FailedTransfers # {}) =>
        /\ FailedTransfers = {Len(requests)}
        /\ fetchEnd \in {"list_status", "list_transport", "detail_transport"}
        /\ all_documents = DocumentsOfLog(requests)
        /\ LoopEndedNormally

\* the listing of page 2 failed after page 1 gave a chunk, and the call
\* returned that chunk
C8_Witness_ListingFailedAfterChunks ==
    /\ FailedTransfers # {}
    /\ requests[Len(requests)].kind = "list"
    /\ pc = "done"
    /\ Len(result.documents) >= 1
    /\ result.path = "fresh"

\* the listing requests of the call, in order
ListingLog == SelectSeq(requests, LAMBDA r : r.kind = "list")

\* a listing response that ends pagination
Terminal(r) == r.outcome # "ok" \/ r.count = 0 \/ ~r.has_next

InFetchLoop == pc \in {"list", "detail"}

C9_PagesInOrder ==
    LET L == ListingLog
    IN  /\ \A i \in 1..Len(L) : L[i].page = i /\ L[i].per_page = PER_PAGE
        /\ \A i \in 1..(Len(L) - 1) : ~Terminal(L[i])
        /\ (pc = "list") => (page = Len(L) + 1)
        /\ (pc = "list" /\ L # <<>>) => ~Terminal(L[Len(L)])
        /\ (pc = "detail") => (L # <<>> /\ L[Len(L)].count > 0)

\* C9: the listing pages are requested as 1, 2, 3, ... with page size 100,
\* each once, none after the first response that reports no next page or
\* holds no documents (or fails); and the fetch loop is always left.
C9_PaginationInOrderAndTerminates ==
    /\ []C9_PagesInOrder
    /\ (InFetchLoop ~> ~InFetchLoop)

\* two pages were requested and the second one ended the loop
C9_Witness_TwoPages ==
    /\ Len(ListingLog) = 2
    /\ Terminal(ListingLog[2])
    /\ ~InFetchLoop
    /\ Len(all_documents) >= 1

\* C10: for every text and chunk_size > 0 the slices of simple_text_splitter
\* concatenate to the text, each has between 1 and chunk_size characters,
\* all but the last have exactly chunk_size, and the empty text gives the
\* empty list.
C10_SplitterContract ==
    splitDone =>
      /\ Concat(splitOut) = splitText
      /\ \A k \in 1..Len(splitOut) :
            Len(splitOut[k]) >= 1 /\ Len(splitOut[k]) <= splitSize
      /\ \A k \in 1..(Len(splitOut) - 1) : Len(splitOut[k]) = splitSize
      /\ (splitText = <<>> => splitOut = <<>>)

\* a text split into several slices, the last one shorter than chunk_size
C10_Witness_ShortLastSlice ==
    /\ splitDone
    /\ Len(splitOut) >= 2
    /\ Len(splitOut[Len(splitOut)]) < splitSize

\* a fetch that an error ended after at least one chunk had been accumulated
PartialFetch == fetchEnd \in ErrorEnds /\ all_documents # <<>>

C17_PartialPersistedAndServed ==
    /\ (pc = "done" /\ result.path # "cache" /\ PartialFetch) =>
          /\ result.path = "fresh"
          /\ result.documents = all_documents
          /\ encodeCalls = 1
          /\ Aligned(all_documents, index)
          /\ cacheFile.exists /\ cacheFile.ok
          /\ cacheFile.content = CacheData(all_documents)
          /\ indexFile.exists /\ indexFile.ok
          /\ indexFile.content = index
          /\ lastSave = "partial"
    /\ (lastSave = "partial" /\ check_cache_validity) =>
          /\ CacheLoads
          /\ pc \in {"load", "done"}
          /\ (pc = "done") =>
                /\ result.path \in {"fresh", "cache"}
                /\ result.documents = DocumentsFromCache(cacheFile.content)
                /\ result.index = indexFile.content
                /\ (result.path = "cache") =>
                      (requests = <<>> /\ encodeCalls = 0 /\ writes = 0)

\* C17: a fetch that a listing, transport or detail error ended after at
\* least one chunk was accumulated is embedded and saved like a complete
\* one (both artifacts hold the partial list and its index); while that
\* snapshot is within the expiry window no step changes the artifacts, and
\* every later call returns the partial list from them without a request.
C17_PartialFetchCachedAndServed ==
    /\ []C17_PartialPersistedAndServed
    /\ [][(lastSave = "partial" /\ check_cache_validity) =>
             UNCHANGED <<cacheFile, indexFile, lastSave>>]_vars

\* a later call, at a later time within the window, returned the partial
\* list from the cache
C17_Witness_PartialServedFromCache ==
    /\ lastSave = "partial"
    /\ pc = "done"
    /\ result.path = "cache"
    /\ Len(result.documents) >= 1
    /\ requests = <<>>
    /\ now > cacheFile.mtime

C18_InvalidCacheNotRead ==
    /\ (builds > 0 /\ ~cacheValid) =>
          /\ pc # "load"
          /\ result.path # "cache"
    /\ (pc = "done" /\ ~cacheValid /\ all_documents = <<>>) =>
          /\ result.path = "sentinel"
          /\ result.documents = <<dummy_document>>
          /\ ntotal(result.index) = 1
          /\ writes = 0

\* C18: a call to which check_cache_validity() returned False never reads
\* the artifacts and never returns their content; when its fetch accumulated
\* nothing it returns the sentinel pair, and as it wrote nothing (only a
\* step that counts as a write changes an artifact) the stale artifacts are
\* still on disk as they were.
C18_InvalidCacheNeverServed ==
    /\ []C18_InvalidCacheNotRead
    /\ [][(writes' = writes \/ builds' # builds) =>
             UNCHANGED <<cacheFile, indexFile>>]_vars

\* the cache had expired, the fetch gave nothing, the sentinel was returned
\* and the complete stale snapshot is still on disk
C18_Witness_SentinelBesideStaleSnapshot ==
    /\ pc = "done"
    /\ ~cacheValid
    /\ result.path = "sentinel"
    /\ lastSave # "none"
    /\ CacheLoads
    /\ CacheAge >= CACHE_EXPIRY_SECONDS

\* C15: clean_markdown is idempotent: for every input text x,
\* clean_markdown(clean_markdown(x)) = clean_markdown(x).
C15_CleanMarkdownIdempotent ==
    cleanDone => (cleanAgain = cleanOut)

\* the 1-based positions of extractIn at which the marker starts
MarkerStarts ==
    {p \in 1..(Len(extractIn) - Len(INST_END) + 1) :
        SubSeq(extractIn, p, p + Len(INST_END) - 1) = INST_END}

\* text has no whitespace at either end
Trimmed(text) ==
    text # <<>> => (text[1] \notin Whitespace /\ text[Len(text)] \notin Whitespace)

\* C12: when the generated text contains the marker, the answer is what
\* follows its last occurrence without the whitespace at both ends; when
\* it does not, the answer is the generated text itself, whitespace
\* included.
C12_AnswerAfterLastMarker ==
    extractDone =>
      IF MarkerStarts = {}
      THEN extractOut = extractIn
      ELSE \E p \in MarkerStarts :
             /\ \A q \in MarkerStarts : q <= p
             /\ LET rest == SubSeq(extractIn, p + Len(INST_END), Len(extractIn))
                IN  /\ Trimmed(extractOut)
                    /\ \E lead, trail \in 0..Len(rest) :
                          /\ lead + trail + Len(extractOut) = Len(rest)
                          /\ extractOut = SubSeq(rest, lead + 1, Len(rest) - trail)
                          /\ \A k \in 1..lead : rest[k] \in Whitespace
                          /\ \A k \in (Len(rest) - trail + 1)..Len(rest) :
                                rest[k] \in Whitespace

\* the marker occurs twice, text follows the second occurrence and
\* whitespace was trimmed from it
C12_Witness_TwoMarkersTrimmed ==
    /\ extractDone
    /\ Cardinality(MarkerStarts) >= 2
    /\ extractOut # <<>>
    /\ \E p \in MarkerStarts :
          /\ \A q \in MarkerStarts : q <= p
          /\ Len(extractOut) < Len(extractIn) - (p + Len(INST_END) - 1)

\* the retrieved chunk texts in ranked order with the separator between
\* neighbours
ContextBlock ==
    Concat([k \in 1..(2 * Len(relevant_docs) - 1) |->
              IF k % 2 = 1 THEN relevant_docs[(k + 1) \div 2].context
              ELSE <<"\n", "-", "-", "-", "\n">>])

\* C11: generate_answer returns the fixed message and does not call the
\* generation model when the retrieved list is empty or its first entry
\* is the sentinel text; otherwise it calls the model exactly once, with a
\* prompt whose context block is the retrieved texts in ranked order
\* joined by the separator, followed by the question.
C11_GuardOrOneGeneration ==
    (askStatus = "ok") =>
      IF relevant_docs = <<>> \/ relevant_docs[1].context = dummy_chunk
      THEN /\ answer = NO_INFO_ANSWER
           /\ generatorCalls = 0
           /\ prompt = None
      ELSE /\ generatorCalls = 1
           /\ prompt = <<PROMPT_HEAD \o ContextBlock \o PROMPT_MID
                            \o question \o PROMPT_TAIL>>

\* the model was called with a block of three texts, the sentinel text in
\* second place
C11_Witness_GeneratedFromThree ==
    /\ askStatus = "ok"
    /\ Len(relevant_docs) = 3
    /\ relevant_docs[2].context = dummy_chunk
    /\ generatorCalls = 1
    /\ answer = <<"a">>

\* C13: whenever retrieve was called, it returned without an error; the
\* distances of the returned entries do not decrease; every returned entry
\* is a chunk of the corpus with its source; and there are at most
\* min(top_k, number of indexed vectors) entries, also when top_k exceeds
\* the number of indexed vectors.
C13_RetrieveOrderedAndBounded ==
    (askStatus # "none") =>
        /\ askStatus # "error"
        /\ \A i, j \in 1..Len(relevant_docs) :
              (i < j) => (relevant_docs[i].distance <= relevant_docs[j].distance)
        /\ Len(relevant_docs) <= Min(top_k, ntotal(result.index))
        /\ Len(relevant_docs) <= Len(documents)
        /\ \A i \in 1..Len(relevant_docs) :
              \E k \in 1..Len(documents) :
                 /\ relevant_docs[i].context = documents[k]
                 /\ relevant_docs[i].source = metadatas[k].source
                 /\ relevant_docs[i].distance =
                       SquaredL2(result.index.vectors[k], Embed(question))

\* the call found the remote corpus empty: its only request is the listing
\* of page 1, answered successfully with no posts
EmptyRemoteCorpus ==
    /\ Len(requests) = 1
    /\ requests[1].kind = "list"
    /\ requests[1].outcome = "ok"
    /\ requests[1].count = 0

\* C14: when the build had no cache to return and found the remote corpus
\* empty, it returns the sentinel pair, and every request to /rag/ask
\* served afterwards answers with the fixed message and an empty source
\* list, without an error and without a call of the generation model.
C14_EmptyCorpusAnswersNoInfo ==
    (pc = "done" /\ EmptyRemoteCorpus) =>
        /\ result.path = "sentinel"
        /\ (askStatus \in {"ok", "error"}) =>
              /\ askStatus = "ok"
              /\ top_k = ASK_TOP_K
              /\ answer = NO_INFO_ANSWER
              /\ sources = <<>>
              /\ generatorCalls = 0
              /\ prompt = None

\* a question was asked after such a build: the sentinel chunk was the one
\* retrieved entry and was left out of the sources
C14_Witness_AskedOnEmptyCorpus ==
    /\ pc = "done"
    /\ ~cacheValid
    /\ EmptyRemoteCorpus
    /\ askStatus = "ok"
    /\ question = <<"a">>
    /\ Len(relevant_docs) = 1
    /\ relevant_docs[1].context = dummy_chunk
    /\ sources = <<>>

\* the snapshot on disk, as load_from_cache would return it
SnapshotOnDisk == <<DocumentsFromCache(cacheFile.content), indexFile.content>>

\* C16: nothing guards the save steps of concurrent builds: a process that
\* is at a save step can always take it, whatever the other process is
\* doing, and it overwrites the artifact in place; so whenever both
\* artifacts are completely written, the chunk-metadata file holds the list
\* of the process whose json.dump came last and the index file the index
\* of the process whose write_index came last (which need not be the same
\* process), and check_cache_validity() reports the cache valid.
C16_UnguardedSavesInterleave ==
    /\ \A p \in Procs : (rpc[p] \in saveSteps) => ENABLED RaceSaveStep(p)
    /\ (cacheFile.ok /\ indexFile.ok) =>
          /\ cacheWriter \in Procs /\ indexWriter \in Procs
          /\ cacheFile.content = CacheData(rdocs[cacheWriter])
          /\ indexFile.content = rindex[indexWriter]
          /\ check_cache_validity

\* both processes found the cache invalid, built and saved; the cache is
\* reported valid and holds the chunk-metadata file of one build and the
\* index file of the other, a pair neither of them produced
C16_Witness_MixedSnapshot ==
    /\ \A p \in Procs : rpc[p] = "returned_fresh" /\ ~rvalid[p]
    /\ check_cache_validity
    /\ CacheLoads
    /\ cacheWriter # indexWriter
    /\ \A p \in Procs : SnapshotOnDisk # <<rdocs[p], rindex[p]>>
    /\ ~Aligned(SnapshotOnDisk[1], SnapshotOnDisk[2])

====
